---------------------------- MODULE Spec2Model ----------------------------
(***************************************************************************)
(* Model of src/src/app.py: the three Flask request handlers (get_data,    *)
(* analyze_hedge, get_portfolio_metrics) and the two data helpers          *)
(* (generate_data, generate_regression_data).                              *)
(*                                                                         *)
(* Text values that the code inspects (dates, the regression flag, the     *)
(* tickers list) are sequences of one-character strings.  Floating-point   *)
(* values are modelled exactly: a finite value is a + b*sqrt(V) with a, b  *)
(* rational and V the variance computed by the scaler; "nan" and "inf"     *)
(* are the IEEE special values numpy produces on a zero divisor.           *)
(***************************************************************************)
EXTENDS Integers, Sequences, FiniteSets, TLC

VARIABLES pc, request, response, calls

vars == <<pc, request, response, calls>>

(***************************************************************************)
(* Bounds of the model.                                                    *)
(***************************************************************************)
MaxRows == 2
MaxFitLen == 4
MaxClose == 3
MaxTickerChars == 3

(***************************************************************************)
(* Optional values: <<>> is None / an absent key, <<v>> is v.              *)
(***************************************************************************)
None == <<>>
Some(v) == <<v>>
IsSome(o) == Len(o) = 1
Val(o) == o[1]

(***************************************************************************)
(* Exact rational arithmetic: <<p, q>> with q > 0 in lowest terms.         *)
(***************************************************************************)
Abs(x) == IF x < 0 THEN -x ELSE x

RECURSIVE Gcd(_, _)
Gcd(a, b) == IF b = 0 THEN a ELSE Gcd(b, a % b)

Rat(p, q) ==
  LET s == IF q < 0 THEN -1 ELSE 1
      g == Gcd(Abs(p), Abs(q))
  IN  <<(s * p) \div g, (s * q) \div g>>

RInt(n) == <<n, 1>>
RZero == <<0, 1>>
RAdd(x, y) == Rat(x[1] * y[2] + y[1] * x[2], x[2] * y[2])
RNeg(x) == <<-x[1], x[2]>>
RSub(x, y) == RAdd(x, RNeg(y))
RMul(x, y) == Rat(x[1] * y[1], x[2] * y[2])
RDiv(x, y) == Rat(x[1] * y[2], x[2] * y[1])
RSign(x) == IF x[1] > 0 THEN 1 ELSE IF x[1] < 0 THEN -1 ELSE 0
RLess(x, y) == x[1] * y[2] < y[1] * x[2]

ISqrt(n) == CHOOSE r \in 0..n : r * r <= n /\ (r + 1) * (r + 1) > n
IsSquare(n) == ISqrt(n) * ISqrt(n) = n
RIsSquare(x) == x[1] >= 0 /\ IsSquare(x[1]) /\ IsSquare(x[2])
RSqrt(x) == <<ISqrt(x[1]), ISqrt(x[2])>>

(***************************************************************************)
(* float64 values.  Fin(a, b) is a + b*sqrt(V); V is passed to the         *)
(* operations that need it.  b is kept 0 whenever V is a perfect square so *)
(* a value has one representation.                                         *)
(***************************************************************************)
Fin(a, b) == [k |-> "fin", a |-> a, b |-> b]
FRat(a) == Fin(a, RZero)
FInt(n) == FRat(RInt(n))
NaN == [k |-> "nan", a |-> RZero, b |-> RZero]
Inf(sgn) == [k |-> "inf", a |-> RInt(sgn), b |-> RZero]

IsFinite(x) == x.k = "fin"
IsRational(x) == x.k = "fin" /\ x.b = RZero

\* sign of a + b*sqrt(V), from the signs of a and b and from a^2 and b^2*V
SignFrom(sa, sb, a2, b2V) ==
  IF sb = 0 THEN sa
  ELSE IF sa = 0 \/ sa = sb THEN sb
  ELSE IF a2 = b2V THEN 0
  ELSE IF RLess(b2V, a2) THEN sa ELSE sb

FSign(x, V) ==
  SignFrom(RSign(x.a), RSign(x.b), RMul(x.a, x.a), RMul(RMul(x.b, x.b), V))

FIsZero(x, V) == x.k = "fin" /\ FSign(x, V) = 0

FNeg(x) == [k |-> x.k, a |-> RNeg(x.a), b |-> RNeg(x.b)]

\* IEEE sum when an operand is nan or inf
AddSpecial(x, y) ==
  IF x.k = "nan" \/ y.k = "nan" THEN NaN
  ELSE IF x.k = "fin" THEN y
  ELSE IF y.k = "fin" \/ x.a = y.a THEN x
  ELSE NaN

FAdd(x, y) ==
  IF x.k = "fin" /\ y.k = "fin"
  THEN Fin(RAdd(x.a, y.a), RAdd(x.b, y.b))
  ELSE AddSpecial(x, y)

FSub(x, y) == FAdd(x, FNeg(y))

\* IEEE product and quotient when an operand is nan or inf, or the divisor 0
SignedInf(sgn) == IF sgn = 0 THEN NaN ELSE Inf(sgn)

MulSpecial(x, y, sx, sy) ==
  IF x.k = "nan" \/ y.k = "nan" THEN NaN ELSE SignedInf(sx * sy)

DivSpecial(x, y, sx, sy) ==
  IF x.k = "nan" \/ y.k = "nan" THEN NaN
  ELSE IF y.k = "inf" THEN (IF x.k = "inf" THEN NaN ELSE FInt(0))
  ELSE IF sy = 0 THEN SignedInf(sx)
  ELSE Inf(sx * sy)

FMul(x, y, V) ==
  IF x.k = "fin" /\ y.k = "fin"
  THEN Fin(RAdd(RMul(x.a, y.a), RMul(RMul(x.b, y.b), V)),
           RAdd(RMul(x.a, y.b), RMul(x.b, y.a)))
  ELSE MulSpecial(x, y, FSign(x, V), FSign(y, V))

\* 1/y for a finite non-zero y: the conjugate over the norm
ConjOver(y, norm) == Fin(RDiv(y.a, norm), RNeg(RDiv(y.b, norm)))

Recip(y, V) == ConjOver(y, RSub(RMul(y.a, y.a), RMul(RMul(y.b, y.b), V)))

\* numpy scalar division: a zero divisor gives nan or inf (a warning, no
\* exception)
DivBySign(x, y, V, sy) ==
  IF x.k = "fin" /\ y.k = "fin" /\ sy # 0
  THEN FMul(x, Recip(y, V), V)
  ELSE DivSpecial(x, y, FSign(x, V), sy)

FDiv(x, y, V) == DivBySign(x, y, V, FSign(y, V))

\* np.sqrt of a non-negative rational q, as an element of Q(sqrt(V))
SqrtOfRatio(t) == CASE RIsSquare(t) -> Fin(RZero, RSqrt(t))

FSqrt(q, V) == IF RIsSquare(q) THEN FRat(RSqrt(q)) ELSE SqrtOfRatio(RDiv(q, V))

RECURSIVE FSum(_)
FSum(xs) == IF xs = <<>> THEN FInt(0) ELSE FAdd(xs[1], FSum(Tail(xs)))

\* np.mean
FMean(xs, V) == FDiv(FSum(xs), FInt(Len(xs)), V)

(***************************************************************************)
(* Text: a str is a sequence of one-character strings.                     *)
(***************************************************************************)
Digits == <<"0", "1", "2", "3", "4", "5", "6", "7", "8", "9">>
IsDigit(c) == \E i \in 1..10 : Digits[i] = c
DigitVal(c) == (CHOOSE i \in 1..10 : Digits[i] = c) - 1

RECURSIVE DecimalValue(_)
DecimalValue(s) ==
  IF s = <<>> THEN 0
  ELSE 10 * DecimalValue(SubSeq(s, 1, Len(s) - 1)) + DigitVal(s[Len(s)])

RECURSIVE DecimalDigits(_)
DecimalDigits(n) ==
  IF n < 10 THEN <<Digits[n + 1]>>
  ELSE Append(DecimalDigits(n \div 10), Digits[(n % 10) + 1])

\* the %m and %d fields of strftime: two digits, zero padded
TwoDigits(n) == <<Digits[(n \div 10) + 1], Digits[(n % 10) + 1]>>

UpperCase == <<"A", "B", "C", "D", "E", "F", "G", "H", "I", "J", "K", "L", "M",
               "N", "O", "P", "Q", "R", "S", "T", "U", "V", "W", "X", "Y", "Z">>
LowerCase == <<"a", "b", "c", "d", "e", "f", "g", "h", "i", "j", "k", "l", "m",
               "n", "o", "p", "q", "r", "s", "t", "u", "v", "w", "x", "y", "z">>

LowerChar(c) ==
  IF \E i \in 1..26 : UpperCase[i] = c
  THEN LowerCase[CHOOSE i \in 1..26 : UpperCase[i] = c]
  ELSE c

\* str.lower()
Lower(s) == [i \in 1..Len(s) |-> LowerChar(s[i])]

\* str.split(sep): the fields between the separators; "" splits to [""]
RECURSIVE Split(_, _)
Split(s, sep) ==
  IF \A i \in 1..Len(s) : s[i] # sep THEN <<s>>
  ELSE LET i == CHOOSE j \in 1..Len(s) :
                  s[j] = sep /\ \A h \in 1..(j - 1) : s[h] # sep
       IN  <<SubSeq(s, 1, i - 1)>> \o Split(SubSeq(s, i + 1, Len(s)), sep)

(***************************************************************************)
(* Calendar: a datetime is [y, m, d] (the time of day never reaches the    *)
(* provider: both strftime calls print the date only).                     *)
(***************************************************************************)
IsLeap(y) == y % 4 = 0 /\ (y % 100 # 0 \/ y % 400 = 0)

DaysInMonthTable == <<31, 28, 31, 30, 31, 30, 31, 31, 30, 31, 30, 31>>
DaysInMonth(y, m) == IF m = 2 /\ IsLeap(y) THEN 29 ELSE DaysInMonthTable[m]

DaysBeforeYear(y) ==
  (y - 1) * 365 + ((y - 1) \div 4) - ((y - 1) \div 100) + ((y - 1) \div 400)

RECURSIVE DaysBeforeMonthTable(_)
DaysBeforeMonthTable(m) ==
  IF m = 1 THEN 0 ELSE DaysBeforeMonthTable(m - 1) + DaysInMonthTable[m - 1]

DaysBeforeMonth(y, m) ==
  DaysBeforeMonthTable(m) + (IF m > 2 /\ IsLeap(y) THEN 1 ELSE 0)

\* datetime.toordinal
Ymd2Ord(dt) == DaysBeforeYear(dt.y) + DaysBeforeMonth(dt.y, dt.m) + dt.d

\* datetime.fromordinal, last step: n is the day within the year
MonthDay(year, leapyear, n, month, preceding) ==
  IF preceding > n
  THEN [y |-> year, m |-> month - 1,
        d |-> n - (preceding - (DaysInMonthTable[month - 1]
                     + (IF month - 1 = 2 /\ leapyear THEN 1 ELSE 0))) + 1]
  ELSE [y |-> year, m |-> month, d |-> n - preceding + 1]

MonthEstimate(year, leapyear, n, month) ==
  MonthDay(year, leapyear, n, month,
           DaysBeforeMonthTable(month) + (IF month > 2 /\ leapyear THEN 1 ELSE 0))

\* n100, n4, n1 count the 100-, 4- and 1-year cycles before the date
YearDay(n400, n100, n4, n1, n) ==
  IF n1 = 4 \/ n100 = 4
  THEN [y |-> n400 * 400 + n100 * 100 + n4 * 4 + n1, m |-> 12, d |-> 31]
  ELSE MonthEstimate(n400 * 400 + 1 + n100 * 100 + n4 * 4 + n1,
                     n1 = 3 /\ (n4 # 24 \/ n100 = 3), n, (n + 50) \div 32)

Cycle4(n400, n100, r100) ==
  YearDay(n400, n100, r100 \div 1461,
          (r100 % 1461) \div 365, (r100 % 1461) % 365)

Cycle400(n400, r400) == Cycle4(n400, r400 \div 36524, r400 % 36524)

\* datetime.fromordinal
Ord2Ymd(ord) == Cycle400((ord - 1) \div 146097, (ord - 1) % 146097)

\* dt - timedelta(days=k)
MinusDays(dt, k) == Ord2Ymd(Ymd2Ord(dt) - k)

\* the %m field of strptime: 1[0-2] | 0[1-9] | [1-9]
IsMonthField(f) ==
  /\ Len(f) \in {1, 2}
  /\ \A i \in 1..Len(f) : IsDigit(f[i])
  /\ DecimalValue(f) \in 1..12

\* the %d field of strptime: 3[01] | [12]\d | 0[1-9] | [1-9] | " "[1-9]
IsDayField(f) ==
  \/ /\ Len(f) \in {1, 2}
     /\ \A i \in 1..Len(f) : IsDigit(f[i])
     /\ DecimalValue(f) \in 1..31
  \/ /\ Len(f) = 2
     /\ f[1] = " "
     /\ IsDigit(f[2])
     /\ DigitVal(f[2]) \in 1..9

DayFieldValue(f) == IF f[1] = " " THEN DigitVal(f[2]) ELSE DecimalValue(f)

\* datetime.strptime(s, '%Y-%m-%d'): [ok |-> FALSE] is a ValueError
Strptime(s) ==
  LET f == Split(s, "-")
      wellFormed == /\ Len(f) = 3
                    /\ Len(f[1]) = 4
                    /\ \A i \in 1..4 : IsDigit(f[1][i])
                    /\ IsMonthField(f[2])
                    /\ IsDayField(f[3])
      dt == [y |-> DecimalValue(f[1]), m |-> DecimalValue(f[2]),
             d |-> DayFieldValue(f[3])]
  IN  IF wellFormed /\ dt.y >= 1 /\ dt.d <= DaysInMonth(dt.y, dt.m)
      THEN [ok |-> TRUE, dt |-> dt]
      ELSE [ok |-> FALSE, dt |-> [y |-> 0, m |-> 0, d |-> 0]]

\* dt.strftime('%Y-%m-%d')
Strftime(dt) ==
  DecimalDigits(dt.y) \o <<"-">> \o TwoDigits(dt.m) \o <<"-">> \o TwoDigits(dt.d)

(***************************************************************************)
(* The trend fit (StandardScaler, LinearRegression and the conversion back *)
(* to the unscaled day index).                                             *)
(***************************************************************************)
\* np.arange(len(df)).reshape(-1, 1)
Arange(n) == [i \in 1..n |-> FInt(i - 1)]

\* StandardScaler.fit: mean_, var_ (the population variance) and scale_;
\* a zero scale is replaced by 1
ScalerOf(mean, var) ==
  [mean |-> mean, var |-> var,
   scale |-> IF var = RZero THEN FInt(1) ELSE FSqrt(var, var)]

SquaredDeviations(X, mean) ==
  [i \in 1..Len(X) |-> FMul(FSub(X[i], mean), FSub(X[i], mean), RZero)]

ScalerAround(X, mean) == ScalerOf(mean, FMean(SquaredDeviations(X, mean), RZero).a)

ScalerFit(X) == ScalerAround(X, FMean(X, RZero))

\* StandardScaler.transform
ScalerTransform(X, sc) ==
  [i \in 1..Len(X) |-> FDiv(FSub(X[i], sc.mean), sc.scale, sc.var)]

\* LinearRegression.fit on one feature: centre X and y, least squares on the
\* centred data (the minimum-norm solution 0 when X is constant), intercept
\* from the offsets.  A non-finite target makes input validation raise.
Centred(xs, offset) == [i \in 1..Len(xs) |-> FSub(xs[i], offset)]

Dot(xs, ys, V) == FSum([i \in 1..Len(xs) |-> FMul(xs[i], ys[i], V)])

Fitted(coef, X_offset, y_offset, V) ==
  [raises |-> FALSE, coef |-> coef,
   intercept |-> FSub(y_offset, FMul(X_offset, coef, V))]

LeastSquares(sxx, sxy, V) ==
  IF FIsZero(sxx, V) THEN FInt(0) ELSE FDiv(sxy, sxx, V)

FitCentred(Xc, yc, X_offset, y_offset, V) ==
  Fitted(LeastSquares(Dot(Xc, Xc, V), Dot(Xc, yc, V), V), X_offset, y_offset, V)

FitOffsets(Xs, y, X_offset, y_offset, V) ==
  FitCentred(Centred(Xs, X_offset), Centred(y, y_offset), X_offset, y_offset, V)

LinearRegressionFit(Xs, y, V) ==
  IF \E i \in 1..Len(y) : ~IsFinite(y[i])
  THEN [raises |-> TRUE, coef |-> NaN, intercept |-> NaN]
  ELSE FitOffsets(Xs, y, FMean(Xs, V), FMean(y, V), V)

\* LinearRegression.predict
Predict(Xs, model, V) ==
  [i \in 1..Len(Xs) |-> FAdd(FMul(Xs[i], model.coef, V), model.intercept)]

\* lines 76-77: the conversion of the scaled coefficients
Unscale(model, mean_days, std_days, V) ==
  [slope |-> FDiv(model.coef, std_days, V),
   intercept |-> FSub(model.intercept,
                      FDiv(FMul(model.coef, mean_days, V), std_days, V))]

\* lines 71-77 with mean_days = n_days / 2
UnscaledCoefficientsHalfN(model, n_days, V) ==
  Unscale(model, FRat(Rat(n_days, 2)),
          FSqrt(Rat((n_days - 1) * (n_days + 1), 12), V), V)

\* lines 71-77: the coefficients in the unscaled day-index domain
UnscaledCoefficients(model, n_days, V) ==
  Unscale(model, FRat(Rat(n_days - 1, 2)),
          FSqrt(Rat((n_days - 1) * (n_days + 1), 12), V), V)

RECURSIVE Pow10(_)
Pow10(d) == IF d = 0 THEN 1 ELSE 10 * Pow10(d - 1)

RECURSIVE ZeroPad(_, _)
ZeroPad(s, width) == IF Len(s) >= width THEN s ELSE ZeroPad(<<"0">> \o s, width)

\* round to the nearest integer, ties to even, of a non-negative rational
RoundHalfEven(x) ==
  LET fl == x[1] \div x[2]
      twice == 2 * (x[1] % x[2])
  IN  IF twice < x[2] THEN fl
      ELSE IF twice > x[2] THEN fl + 1
      ELSE IF fl % 2 = 0 THEN fl ELSE fl + 1

\* f"{x:.<d>f}"
FormatFixed(x, d) ==
  CASE x.k = "nan" -> <<"n", "a", "n">>
    [] x.k = "inf" -> (IF x.a[1] < 0 THEN <<"-">> ELSE <<>>) \o <<"i", "n", "f">>
    [] IsRational(x) ->
         LET scaled == RoundHalfEven(RMul(<<Abs(x.a[1]), x.a[2]>>, RInt(Pow10(d))))
         IN  (IF x.a[1] < 0 THEN <<"-">> ELSE <<>>)
               \o DecimalDigits(scaled \div Pow10(d))
               \o <<".">>
               \o ZeroPad(DecimalDigits(scaled % Pow10(d)), d)

PricePrefix == <<"p", "r", "i", "c", "e", " ", "=", " ">>
DaysInfix == <<" ", "*", " ", "d", "a", "y", "s", " ", "+", " ">>

\* f"price = {actual_slope:.4f} * days + {actual_intercept:.2f}"
FormatFormula(slope, intercept) ==
  PricePrefix \o FormatFixed(slope, 4) \o DaysInfix \o FormatFixed(intercept, 2)

\* "price = 0 * days + 0"
ZeroFormula == PricePrefix \o <<"0">> \o DaysInfix \o <<"0">>

(***************************************************************************)
(* The data helpers.  Each returns [ret |-> the returned dict,             *)
(* calls |-> the provider calls it made, in order].  A dict of the         *)
(* /get-data payload is a record of optional keys; a date:value mapping is *)
(* the sequence of its <<date, value>> items.                              *)
(***************************************************************************)
Truthy(o) == IsSome(o) /\ Val(o) # <<>>

Call(fn, args) == [fn |-> fn, args |-> args]

\* {}
EmptyDict ==
  [prices |-> None, regression |-> None, companyName |-> None,
   slope |-> None, intercept |-> None, formula |-> None]

\* lines 93-100: the except branch of generate_regression_data
RegressionExcept(ticker) ==
  [prices |-> Some(<<>>), regression |-> Some(<<>>),
   companyName |-> Some(ticker), slope |-> Some(FInt(0)),
   intercept |-> Some(FInt(0)), formula |-> Some(ZeroFormula)]

\* line 142, returning the empty dict of the no-data branch
DataExceptEmpty(ticker) == EmptyDict

\* line 142: the except branch of generate_data
DataExcept(ticker) ==
  [prices |-> Some(<<>>), regression |-> None, companyName |-> Some(ticker),
   slope |-> None, intercept |-> None, formula |-> None]

\* both dates parsed, unless either strptime raised
Parsed(s, e) == [ok |-> s.ok /\ e.ok, start |-> s.dt, end |-> e.dt]

\* the 90 days before end_date
Trailing(end_date) ==
  [ok |-> TRUE, start |-> MinusDays(end_date, 90), end |-> end_date]

\* lines 28-33
RegressionWindow(start_date, end_date, today) ==
  IF Truthy(start_date) /\ Truthy(end_date)
  THEN Parsed(Strptime(Val(start_date)), Strptime(Val(end_date)))
  ELSE Trailing(MinusDays(today, 1))

\* lines 105-110, with the default window ending today
DataWindowEndsToday(start_date, end_date, today) ==
  IF Truthy(start_date) /\ Truthy(end_date)
  THEN Parsed(Strptime(Val(start_date)), Strptime(Val(end_date)))
  ELSE Trailing(today)

\* lines 105-110
DataWindow(start_date, end_date, today) ==
  IF Truthy(start_date) /\ Truthy(end_date)
  THEN Parsed(Strptime(Val(start_date)), Strptime(Val(end_date)))
  ELSE Trailing(MinusDays(today, 1))

\* stock.history(start=..., end=...)
HistoryCall(ticker, w) ==
  Call("history", <<ticker, Strftime(w.start), Strftime(w.end)>>)

\* stock.info
InfoCall(ticker) == Call("info", <<ticker>>)

\* info.get('longName', ticker)
CompanyName(info, ticker) ==
  IF IsSome(info.longName) THEN Val(info.longName) ELSE ticker

\* {date: float(price) for date, price in zip(dates, values)}
DateDict(rows, values) ==
  [i \in 1..Len(rows) |-> <<Strftime(rows[i].date), values[i]>>]

Closes(rows) == [i \in 1..Len(rows) |-> rows[i].close]

Outcome(ret, made) == [ret |-> ret, calls |-> made]

\* lines 82-89, with the ticker in place of the issuer's name
RegressionReturnTickerName(ticker, q, df, y_pred, actual, info) ==
  Outcome([prices |-> Some(DateDict(df, Closes(df))),
           regression |-> Some(DateDict(df, y_pred)),
           companyName |-> Some(ticker),
           slope |-> Some(actual.slope),
           intercept |-> Some(actual.intercept),
           formula |-> Some(FormatFormula(actual.slope, actual.intercept))],
          <<q, InfoCall(ticker)>>)

\* lines 82-89
RegressionReturn(ticker, q, df, y_pred, actual, info) ==
  Outcome([prices |-> Some(DateDict(df, Closes(df))),
           regression |-> Some(DateDict(df, y_pred)),
           companyName |-> Some(CompanyName(info, ticker)),
           slope |-> Some(actual.slope),
           intercept |-> Some(actual.intercept),
           formula |-> Some(FormatFormula(actual.slope, actual.intercept))],
          <<q, InfoCall(ticker)>>)

\* lines 59-80, once the model is fitted
RegressionFitted(ticker, q, df, V, X_scaled, model, info) ==
  IF model.raises THEN Outcome(RegressionExcept(ticker), <<q>>)
  ELSE IF info.raises
  THEN Outcome(RegressionExcept(ticker), <<q, InfoCall(ticker)>>)
  ELSE RegressionReturn(ticker, q, df, Predict(X_scaled, model, V),
                        UnscaledCoefficients(model, Len(df), V), info)

\* lines 54-56
RegressionScaled(ticker, q, df, V, X_scaled, info) ==
  RegressionFitted(ticker, q, df, V, X_scaled,
                   LinearRegressionFit(X_scaled, Closes(df), V), info)

\* lines 51-52
RegressionFrame(ticker, q, df, scaler, info) ==
  RegressionScaled(ticker, q, df, scaler.var,
                   ScalerTransform(Arange(Len(df)), scaler), info)

\* lines 38-47
RegressionFetch(ticker, q, hist, info) ==
  IF hist.raises THEN Outcome(RegressionExcept(ticker), <<q>>)
  ELSE IF hist.rows = <<>> THEN Outcome(EmptyDict, <<q>>)
  ELSE RegressionFrame(ticker, q, hist.rows,
                       ScalerFit(Arange(Len(hist.rows))), info)

RegressionTry(ticker, w, hist, info) ==
  IF ~w.ok THEN Outcome(RegressionExcept(ticker), <<>>)
  ELSE RegressionFetch(ticker, HistoryCall(ticker, w), hist, info)

generate_regression_data(ticker, start_date, end_date, today, hist, info) ==
  RegressionTry(ticker, RegressionWindow(start_date, end_date, today),
                hist, info)

\* lines 114-138
DataFetch(ticker, q, hist, info) ==
  IF hist.raises THEN Outcome(DataExcept(ticker), <<q>>)
  ELSE IF hist.rows = <<>> THEN Outcome(EmptyDict, <<q>>)
  ELSE IF info.raises
  THEN Outcome(DataExcept(ticker), <<q, InfoCall(ticker)>>)
  ELSE Outcome([prices |-> Some(DateDict(hist.rows, Closes(hist.rows))),
                regression |-> None,
                companyName |-> Some(CompanyName(info, ticker)),
                slope |-> None, intercept |-> None, formula |-> None],
               <<q, InfoCall(ticker)>>)

DataTry(ticker, w, hist, info) ==
  IF ~w.ok THEN Outcome(DataExcept(ticker), <<>>)
  ELSE DataFetch(ticker, HistoryCall(ticker, w), hist, info)

generate_data(ticker, start_date, end_date, today, hist, info) ==
  DataTry(ticker, DataWindow(start_date, end_date, today), hist, info)

(***************************************************************************)
(* Requests and the environment's answers.                                 *)
(***************************************************************************)
\* request.args.get('ticker'): absent, or a symbol
TickerArgs == {None, Some("MSFT")}

\* request.args.get('start_date') / ('end_date'):
\* absent, "", "2023-12-01", "2024-3-1", "2024-02-30"
DateArgs ==
  {None, Some(<<>>),
   Some(<<"2", "0", "2", "3", "-", "1", "2", "-", "0", "1">>),
   Some(<<"2", "0", "2", "4", "-", "3", "-", "1">>),
   Some(<<"2", "0", "2", "4", "-", "0", "2", "-", "3", "0">>)}

\* request.args.get('regression'): absent, "true", "True", "yes"
FlagArgs ==
  {None, Some(<<"t", "r", "u", "e">>), Some(<<"T", "r", "u", "e">>),
   Some(<<"y", "e", "s">>)}

FalseText == <<"f", "a", "l", "s", "e">>
TrueText == <<"t", "r", "u", "e">>

\* datetime.now(): 2024-03-01 and 2025-01-01
Todays == {[y |-> 2024, m |-> 3, d |-> 1], [y |-> 2025, m |-> 1, d |-> 1]}

\* the Close column: finite prices, or a missing value
CloseValues == {FInt(7), FInt(10), NaN}

\* the index of the frame: consecutive days from 2024-02-28
RowDate(i) == Ord2Ymd(Ymd2Ord([y |-> 2024, m |-> 2, d |-> 28]) + i - 1)

Frame(closes) == [i \in 1..Len(closes) |-> [date |-> RowDate(i), close |-> closes[i]]]

SeqsUpTo(S, lo, hi) == UNION {[1..n -> S] : n \in lo..hi}

\* stock.history: raises, or returns a frame of 0..MaxRows rows
HistOutcomes ==
  {[raises |-> TRUE, rows |-> <<>>]}
    \cup {[raises |-> FALSE, rows |-> Frame(c)] : c \in SeqsUpTo(CloseValues, 0, MaxRows)}

\* stock.info: raises, or a mapping with or without 'longName'
InfoOutcomes ==
  {[raises |-> TRUE, longName |-> None],
   [raises |-> FALSE, longName |-> None],
   [raises |-> FALSE, longName |-> Some("Microsoft Corporation")]}

NoRequest == [endpoint |-> "none"]
NoResponse == [status |-> 0]

(***************************************************************************)
(* GET /get-data                                                           *)
(***************************************************************************)
\* line 152, without .lower()
IncludeRegressionExact(regression) ==
  (IF IsSome(regression) THEN Val(regression) ELSE FalseText) = TrueText

\* line 152: request.args.get('regression', 'false').lower() == 'true'
IncludeRegression(regression) ==
  Lower(IF IsSome(regression) THEN Val(regression) ELSE FalseText) = TrueText

Responded(req, status, body, made) ==
  /\ request' = req
  /\ response' = [status |-> status, body |-> body]
  /\ calls' = made
  /\ pc' = "responded"

\* lines 154-159
Dispatch(req, ticker, include_regression, data) ==
  Responded(req, 200, data.ret,
            <<Call(IF include_regression
                   THEN "generate_regression_data" ELSE "generate_data",
                   <<ticker, req.start_date, req.end_date>>)>> \o data.calls)

\* lines 149-157
Route(req, ticker, include_regression) ==
  Dispatch(req, ticker, include_regression,
           IF include_regression
           THEN generate_regression_data(ticker, req.start_date, req.end_date,
                                         req.today, req.hist, req.info)
           ELSE generate_data(ticker, req.start_date, req.end_date,
                              req.today, req.hist, req.info))

get_data ==
  /\ pc = "idle"
  /\ \E tickerArg \in TickerArgs, start_date \in DateArgs, end_date \in DateArgs,
        regression \in FlagArgs, today \in Todays,
        hist \in HistOutcomes, info \in InfoOutcomes :
       Route([endpoint |-> "/get-data", ticker |-> tickerArg,
              start_date |-> start_date, end_date |-> end_date,
              regression |-> regression, today |-> today,
              hist |-> hist, info |-> info],
             IF IsSome(tickerArg) THEN Val(tickerArg) ELSE "AAPL",
             IncludeRegression(regression))

(***************************************************************************)
(* GET /analyze-hedge                                                      *)
(***************************************************************************)
\* truth value of an optional str argument that the code does not inspect
\* further
TruthyText(o) == IsSome(o) /\ Val(o) # ""

\* request.args.get('ticker1') / ('ticker2')
HedgeTickerArgs == {None, Some(""), Some("AAPL"), Some("MSFT")}

\* start_date / end_date of the endpoints that pass them on unread
PassedDateArgs == {None, Some(<<"2", "0", "2", "3", "-", "1", "2", "-", "0", "1">>)}

\* analyze_hedge_relationship: raises, or returns a result mapping
AnalyzerOutcomes ==
  {[raises |-> TRUE, result |-> [hedge_ratio |-> 0]],
   [raises |-> FALSE, result |-> [hedge_ratio |-> 1]],
   [raises |-> FALSE, result |-> [hedge_ratio |-> 2]]}

\* an exception that leaves a view function: Flask answers 500
Unhandled(req, made) ==
  Responded(req, 500, [html |-> "Internal Server Error"], made)

\* lines 172-173
HedgeAnalyzed(req, analysis, made) ==
  IF analysis.raises THEN Unhandled(req, made)
  ELSE Responded(req, 200, analysis.result, made)

\* lines 169-173, with ticker2 never examined
HedgeRouteFirstOnly(req) ==
  IF ~TruthyText(req.ticker1)
  THEN Responded(req, 400, [error |-> "Both tickers are required"], <<>>)
  ELSE HedgeAnalyzed(req, req.analysis,
                     <<Call("analyze_hedge_relationship",
                            <<req.ticker1, req.ticker2,
                              req.start_date, req.end_date>>)>>)

\* lines 169-173
HedgeRoute(req) ==
  IF ~TruthyText(req.ticker1) \/ ~TruthyText(req.ticker2)
  THEN Responded(req, 400, [error |-> "Both tickers are required"], <<>>)
  ELSE HedgeAnalyzed(req, req.analysis,
                     <<Call("analyze_hedge_relationship",
                            <<req.ticker1, req.ticker2,
                              req.start_date, req.end_date>>)>>)

analyze_hedge ==
  /\ pc = "idle"
  /\ \E ticker1 \in HedgeTickerArgs, ticker2 \in HedgeTickerArgs,
        start_date \in PassedDateArgs, end_date \in PassedDateArgs,
        analysis \in AnalyzerOutcomes :
       HedgeRoute([endpoint |-> "/analyze-hedge",
                   ticker1 |-> ticker1, ticker2 |-> ticker2,
                   start_date |-> start_date, end_date |-> end_date,
                   analysis |-> analysis])

(***************************************************************************)
(* GET /portfolio-metrics                                                  *)
(***************************************************************************)
\* request.args.get('tickers'): absent, or a text over "A", "M" and ","
TickersArgs ==
  {None} \cup {Some(t) : t \in SeqsUpTo({"A", "M", ","}, 0, MaxTickerChars)}

\* where the try block raises, if anywhere
PortfolioFaults ==
  {"none", "calculate_portfolio_metrics", "prepare_portfolio_data",
   "tolist", "jsonify"}

\* calculate_portfolio_metrics and prepare_portfolio_data: what they return,
\* or the step that raises and the message of its exception
PortfolioOutcomes ==
  {[fault |-> f, message |-> "failed",
    final_weights |-> <<1, 0>>, final_ret |-> 2, final_vol |-> 3,
    final_sharpe |-> 4, portfolio_data |-> <<5>>] : f \in PortfolioFaults}

CalculateCall(req, tickers) ==
  Call("calculate_portfolio_metrics", <<tickers, req.start_date, req.end_date>>)

PrepareCall == Call("prepare_portfolio_data", <<"opts", "optv", "rets">>)

\* line 200
PortfolioExcept(req, e, made) == Responded(req, 500, [error |-> e.message], made)

\* lines 185-198, with only the optimizer call inside the try block
PortfolioTryNarrow(req, tickers, out) ==
  IF out.fault = "calculate_portfolio_metrics"
  THEN PortfolioExcept(req, out, <<CalculateCall(req, tickers)>>)
  ELSE IF out.fault # "none"
  THEN Unhandled(req, <<CalculateCall(req, tickers), PrepareCall>>)
  ELSE Responded(req, 200,
                 [final_weights |-> out.final_weights,
                  final_return |-> out.final_ret,
                  final_volatility |-> out.final_vol,
                  final_sharpe_ratio |-> out.final_sharpe,
                  data |-> out.portfolio_data],
                 <<CalculateCall(req, tickers), PrepareCall>>)

\* lines 185-198
PortfolioTry(req, tickers, out) ==
  IF out.fault = "calculate_portfolio_metrics"
  THEN PortfolioExcept(req, out, <<CalculateCall(req, tickers)>>)
  ELSE IF out.fault # "none"
  THEN PortfolioExcept(req, out, <<CalculateCall(req, tickers), PrepareCall>>)
  ELSE Responded(req, 200,
                 [final_weights |-> out.final_weights,
                  final_return |-> out.final_ret,
                  final_volatility |-> out.final_vol,
                  final_sharpe_ratio |-> out.final_sharpe,
                  data |-> out.portfolio_data],
                 <<CalculateCall(req, tickers), PrepareCall>>)

\* lines 182-185
PortfolioRoute(req, tickers) ==
  IF tickers = <<>> \/ tickers[1] = <<>>
  THEN Responded(req, 400, [error |-> "At least one ticker is required"], <<>>)
  ELSE PortfolioTry(req, tickers, req.outcome)

get_portfolio_metrics ==
  /\ pc = "idle"
  /\ \E tickers \in TickersArgs,
        start_date \in PassedDateArgs, end_date \in PassedDateArgs,
        outcome \in PortfolioOutcomes :
       PortfolioRoute([endpoint |-> "/portfolio-metrics", tickers |-> tickers,
                       start_date |-> start_date, end_date |-> end_date,
                       outcome |-> outcome],
                      Split(IF IsSome(tickers) THEN Val(tickers) ELSE <<>>, ","))

(***************************************************************************)
(* The server loop: the request's objects are discarded after the response *)
(* is sent, and the next request is awaited.                               *)
(***************************************************************************)
next_request ==
  /\ pc = "responded"
  /\ pc' = "idle"
  /\ request' = NoRequest
  /\ response' = NoResponse
  /\ calls' = <<>>

Init ==
  /\ pc = "idle"
  /\ request = NoRequest
  /\ response = NoResponse
  /\ calls = <<>>

Next == get_data \/ analyze_hedge \/ get_portfolio_metrics \/ next_request

Spec == Init /\ [][Next]_vars

(***************************************************************************)
(* The trend fit alone: a frame of 1..MaxFitLen finite closing prices is   *)
(* drawn, and generate_regression_data is applied to it.                   *)
(***************************************************************************)
FitCloses == {FInt(c) : c \in 0..MaxClose}

FitRequests ==
  {[endpoint |-> "fit", ticker |-> "AAPL", start_date |-> None,
    end_date |-> None, today |-> [y |-> 2024, m |-> 3, d |-> 1],
    hist |-> [raises |-> FALSE, rows |-> Frame(c)],
    info |-> [raises |-> FALSE, longName |-> None]] :
     c \in SeqsUpTo(FitCloses, 1, MaxFitLen)}

FitInit ==
  /\ pc = "idle"
  /\ request \in FitRequests
  /\ response = NoResponse
  /\ calls = <<>>

FitApplied(req, data) == Responded(req, 200, data.ret, data.calls)

trend_fit ==
  /\ pc = "idle"
  /\ FitApplied(request,
                generate_regression_data(request.ticker, request.start_date,
                                         request.end_date, request.today,
                                         request.hist, request.info))

FitNext == trend_fit

SpecFit == FitInit /\ [][FitNext]_vars

(***************************************************************************)
(* Properties.                                                             *)
(***************************************************************************)
AtGetData == pc = "responded" /\ request.endpoint = "/get-data"
AtHedge == pc = "responded" /\ request.endpoint = "/analyze-hedge"
AtPortfolio == pc = "responded" /\ request.endpoint = "/portfolio-metrics"
AtFit == pc = "responded" /\ request.endpoint = "fit"

RequestedTicker == IF IsSome(request.ticker) THEN Val(request.ticker) ELSE "AAPL"

RanRegression == calls[1].fn = "generate_regression_data"

HistoryCalls == {i \in 1..Len(calls) : calls[i].fn = "history"}

\* the integers written between the dashes of a date text
Denoted(text) ==
  [y |-> DecimalValue(Split(text, "-")[1]),
   m |-> DecimalValue(Split(text, "-")[2]),
   d |-> DecimalValue(Split(text, "-")[3])]

IsCalendarDate(dt) ==
  dt.m \in 1..12 /\ dt.d >= 1 /\ dt.d <= DaysInMonth(dt.y, dt.m)

RECURSIVE DaysToYear(_)
DaysToYear(y) ==
  IF y <= 2000 THEN 0
  ELSE DaysToYear(y - 1) + (IF IsLeap(y - 1) THEN 366 ELSE 365)

RECURSIVE DaysToMonth(_, _)
DaysToMonth(y, m) ==
  IF m = 1 THEN 0 ELSE DaysToMonth(y, m - 1) + DaysInMonth(y, m - 1)

\* days from 2000-01-01
DayNumber(dt) == DaysToYear(dt.y) + DaysToMonth(dt.y, dt.m) + dt.d - 1

BothSupplied ==
  /\ IsSome(request.start_date) /\ Val(request.start_date) # <<>>
  /\ IsSome(request.end_date) /\ Val(request.end_date) # <<>>

DatesRaise ==
  BothSupplied /\ ~(/\ IsCalendarDate(Denoted(Val(request.start_date)))
                    /\ IsCalendarDate(Denoted(Val(request.end_date))))

FrameReturned == ~DatesRaise /\ ~request.hist.raises

NonFiniteClose ==
  \E i \in 1..Len(request.hist.rows) : request.hist.rows[i].close.k # "fin"

\* the fit raises: a frame with rows, one of them without a finite close
FitRaises == FrameReturned /\ request.hist.rows # <<>> /\ NonFiniteClose

\* some step of the try block raises
Raised ==
  \/ DatesRaise
  \/ ~DatesRaise /\ request.hist.raises
  \/ FrameReturned /\ request.hist.rows # <<>>
       /\ (request.info.raises \/ (RanRegression /\ NonFiniteClose))

DefaultPayload ==
  IF RanRegression
  THEN [prices |-> <<<<>>>>, regression |-> <<<<>>>>,
        companyName |-> <<RequestedTicker>>,
        slope |-> <<FInt(0)>>, intercept |-> <<FInt(0)>>,
        formula |-> <<ZeroFormula>>]
  ELSE [prices |-> <<<<>>>>, regression |-> <<>>,
        companyName |-> <<RequestedTicker>>,
        slope |-> <<>>, intercept |-> <<>>, formula |-> <<>>]

\* C1: when the provider's history response has zero rows, /get-data
\* answers 200 with prices = {} and companyName = the requested ticker (and,
\* in regression mode, the default regression fields).
C1_EmptyFrameGivesDefaultPayload ==
  (AtGetData /\ FrameReturned /\ request.hist.rows = <<>>)
    => (response.status = 200 /\ response.body = DefaultPayload)

\* C2: /get-data always answers 200, and whenever date parsing, the fetch,
\* the issuer lookup or the regression raises, the body is the default
\* payload of the path that ran.
C2_ExceptionsSwallowed ==
  AtGetData =>
    /\ response.status = 200
    /\ Raised => response.body = DefaultPayload

C2_Witness ==
  /\ AtGetData /\ RanRegression
  /\ FitRaises /\ ~request.info.raises
  /\ response.status = 200
  /\ response.body.slope = <<FInt(0)>>

\* C3: with both dates supplied the provider is queried with exactly those
\* two dates; otherwise whatever was supplied is ignored and the window is
\* end = today - 1 day, start = end - 90 days.
C3_DateResolution ==
  AtGetData =>
    /\ (HistoryCalls # {}) <=> ~DatesRaise
    /\ \A i \in HistoryCalls :
         IF BothSupplied
         THEN /\ Denoted(calls[i].args[2]) = Denoted(Val(request.start_date))
              /\ Denoted(calls[i].args[3]) = Denoted(Val(request.end_date))
              /\ Len(calls[i].args[2]) = 10 /\ Len(calls[i].args[3]) = 10
         ELSE /\ DayNumber(Denoted(calls[i].args[3]))
                   = DayNumber(request.today) - 1
              /\ DayNumber(Denoted(calls[i].args[2]))
                   = DayNumber(request.today) - 91
              /\ IsCalendarDate(Denoted(calls[i].args[2]))
              /\ IsCalendarDate(Denoted(calls[i].args[3]))

\* only one date supplied (an unparseable one), default window queried by
\* the plain path
C3_Witness ==
  /\ AtGetData /\ ~RanRegression
  /\ IsSome(request.start_date) /\ Val(request.start_date) # <<>>
  /\ ~IsCalendarDate(Denoted(Val(request.start_date)))
  /\ request.end_date = <<>>
  /\ request.today = [y |-> 2024, m |-> 3, d |-> 1]
  /\ \E i \in HistoryCalls :
       Denoted(calls[i].args[3]) = [y |-> 2024, m |-> 2, d |-> 29]

\* the text is "true" up to the case of its letters
IsTrueIgnoringCase(text) ==
  /\ Len(text) = 4
  /\ text[1] \in {"t", "T"} /\ text[2] \in {"r", "R"}
  /\ text[3] \in {"u", "U"} /\ text[4] \in {"e", "E"}

PathCalls ==
  {i \in 1..Len(calls) :
     calls[i].fn \in {"generate_data", "generate_regression_data"}}

\* C7: /get-data runs the trend-fit path iff the regression parameter is
\* "true" compared case-insensitively, the plain path otherwise; exactly one
\* path runs, with the ticker defaulting to "AAPL" when absent.
C7_Dispatch ==
  AtGetData =>
    /\ Cardinality(PathCalls) = 1
    /\ \A i \in PathCalls :
         /\ (calls[i].fn = "generate_regression_data")
              <=> (IsSome(request.regression)
                     /\ IsTrueIgnoringCase(Val(request.regression)))
         /\ calls[i].args[1] = RequestedTicker
         /\ (request.ticker = <<>>) => calls[i].args[1] = "AAPL"

C7_Witness ==
  /\ AtGetData
  /\ IsSome(request.regression)
  /\ Val(request.regression)[1] = "T"
  /\ RanRegression
  /\ request.ticker = <<>>

Missing(arg) == arg = <<>> \/ arg = <<"">>

AnalyzerCalls ==
  {i \in 1..Len(calls) : calls[i].fn = "analyze_hedge_relationship"}

\* C4: /analyze-hedge answers 400 {error: "Both tickers are required"} iff
\* ticker1 or ticker2 is missing or empty, without invoking the analyzer;
\* with both present the analyzer is invoked exactly once with (ticker1,
\* ticker2, start_date, end_date) and what it returns is the 200 body.
C4_HedgeValidation ==
  AtHedge =>
    /\ (response.status = 400)
         <=> (Missing(request.ticker1) \/ Missing(request.ticker2))
    /\ response.status = 400 =>
         /\ response.body = [error |-> "Both tickers are required"]
         /\ AnalyzerCalls = {}
    /\ response.status # 400 =>
         /\ Len(calls) = 1 /\ AnalyzerCalls = {1}
         /\ calls[1].args = <<request.ticker1, request.ticker2,
                              request.start_date, request.end_date>>
         /\ ~request.analysis.raises =>
              /\ response.status = 200
              /\ response.body = request.analysis.result

C4_Witness ==
  /\ AtHedge
  /\ request.ticker1 = <<"AAPL">> /\ request.ticker2 = <<"MSFT">>
  /\ response.status = 200
  /\ response.body = [hedge_ratio |-> 2]
  /\ Len(calls) = 1

TickersText == IF IsSome(request.tickers) THEN Val(request.tickers) ELSE <<>>

HasTicker == \E i \in 1..Len(TickersText) : TickersText[i] # ","

OptimizerCalls ==
  {i \in 1..Len(calls) : calls[i].fn = "calculate_portfolio_metrics"}

\* C5: /portfolio-metrics answers 400, without calling the optimizer,
\* exactly when the tickers parameter holds no non-empty ticker; otherwise
\* the optimizer is called with the comma-separated tickers in request order.
C5_TickersValidation ==
  AtPortfolio =>
    /\ (response.status = 400) <=> ~HasTicker
    /\ response.status = 400 => OptimizerCalls = {}
    /\ HasTicker =>
         /\ OptimizerCalls = {1}
         /\ calls[1].args[1] = Split(TickersText, ",")

ValidationPassed == TickersText # <<>> /\ TickersText[1] # ","

\* C6: once validation has passed, an exception of the optimizer, of the
\* data shaping or of building the body gives 500 {error: message}; with no
\* exception the answer is 200 with exactly the five result keys.
C6_PortfolioErrors ==
  (AtPortfolio /\ ValidationPassed) =>
    IF request.outcome.fault # "none"
    THEN /\ response.status = 500
         /\ DOMAIN response.body = {"error"}
         /\ response.body.error = request.outcome.message
    ELSE /\ response.status = 200
         /\ DOMAIN response.body =
              {"final_weights", "final_return", "final_volatility",
               "final_sharpe_ratio", "data"}

C6_Witness ==
  /\ AtPortfolio /\ ValidationPassed
  /\ request.outcome.fault = "prepare_portfolio_data"
  /\ response.status = 500
  /\ Len(calls) = 2

(***************************************************************************)
(* The ordinary-least-squares line of the closes against the day index     *)
(* 0..n-1, from the normal equations.                                      *)
(***************************************************************************)
RECURSIVE SumTo(_, _)
SumTo(f, n) == IF n = 0 THEN 0 ELSE SumTo(f, n - 1) + f[n]

FitN == Len(request.hist.rows)
FitX == [i \in 1..FitN |-> i - 1]
FitY == [i \in 1..FitN |-> request.hist.rows[i].close.a[1]]
FitSxy == SumTo([i \in 1..FitN |-> FitX[i] * FitY[i]], FitN)
FitSxx == SumTo([i \in 1..FitN |-> FitX[i] * FitX[i]], FitN)
FitSx == SumTo(FitX, FitN)
FitSy == SumTo(FitY, FitN)

OlsSlope == Rat(FitN * FitSxy - FitSx * FitSy, FitN * FitSxx - FitSx * FitSx)
OlsIntercept ==
  RDiv(RSub(RInt(FitSy), RMul(OlsSlope, RInt(FitSx))), RInt(FitN))

\* C8: for n >= 2 observations the returned slope and intercept are those
\* of an ordinary-least-squares fit of the close against the day index.
C8_RecoversOls ==
  (AtFit /\ FitN >= 2) =>
    /\ response.body.slope = <<FRat(OlsSlope)>>
    /\ response.body.intercept = <<FRat(OlsIntercept)>>

\* three observations (an irrational standard deviation), a sloped line
C8_Witness ==
  /\ AtFit /\ FitN = 3
  /\ FitY = <<1, 0, 3>>
  /\ response.body.slope = <<FInt(1)>>
  /\ response.body.intercept = <<FRat(<<1, 3>>)>>

\* C9: with exactly one row the unscaled conversion raises, so the request
\* ends in the default payload and no slope or intercept computed from the
\* division is returned.
C9_SingleRowGivesDefaultPayload ==
  (AtGetData /\ RanRegression /\ FrameReturned /\ Len(request.hist.rows) = 1)
    => response.body = DefaultPayload

Keys(body) ==
  {f \in {"prices", "regression", "companyName", "slope", "intercept", "formula"} :
     body[f] # <<>>}

DateKeys(items) == [i \in 1..Len(items) |-> items[i][1]]

\* what the path that did not run returns for the same arguments and the
\* same provider answers
OtherPath ==
  IF RanRegression
  THEN generate_data(RequestedTicker, request.start_date, request.end_date,
                     request.today, request.hist, request.info).ret
  ELSE generate_regression_data(RequestedTicker, request.start_date,
                                request.end_date, request.today,
                                request.hist, request.info).ret

AgreeOn(regressionBody, plainBody) ==
  /\ regressionBody.prices = plainBody.prices
  /\ regressionBody.companyName = plainBody.companyName
  /\ Keys(plainBody) \subseteq Keys(regressionBody)
  /\ Keys(regressionBody) \ Keys(plainBody)
       \subseteq {"regression", "slope", "intercept", "formula"}
  /\ regressionBody.regression # <<>> =>
       DateKeys(regressionBody.regression[1]) = DateKeys(regressionBody.prices[1])

AgreeWith(other) ==
  IF RanRegression THEN AgreeOn(response.body, other)
  ELSE AgreeOn(other, response.body)

PathsAgree == AgreeWith(OtherPath)

============================================================================
